---- MODULE Spec2Model ----
(***************************************************************************)
(* A model of app.py: the GeminiWebsiteChatbot class (parse_website,       *)
(* process_content, setup_gemini, generate_response) and the Streamlit     *)
(* script main(), whose session state is the state of the machine.         *)
(*                                                                         *)
(* Python values are represented as follows.                               *)
(*  - A str that the code inspects character by character is a sequence    *)
(*    of runs [c |-> character, n |-> repetitions], n >= 1; only a         *)
(*    non-whitespace character has n > 1.  A run of 50,000 characters is   *)
(*    one element, so the real size limits of the code are kept.           *)
(*  - A str that the code only passes along (a URL, a query, an API key,   *)
(*    an exception's text in an f-string) is a TLA+ string.  The fixed     *)
(*    messages are written without their leading emoji.                    *)
(*  - A dict is a record; {} is the empty function <<>>.                   *)
(*  - The BeautifulSoup tree is its pre-order token sequence: an "open"    *)
(*    and a "close" token around the tokens of an element's children, a    *)
(*    "text" token for a string node, a "meta" token for a <meta> element. *)
(***************************************************************************)
EXTENDS Integers, Sequences, FiniteSets, TLC

VARIABLES
    chatbot,         \* st.session_state.chatbot: a GeminiWebsiteChatbot
    parsed_data,     \* st.session_state.parsed_data
    chat_history,    \* st.session_state.chat_history
    api_configured,  \* st.session_state.api_configured
    api_key,         \* the value held by the "Gemini API Key" text_input
    url_input,       \* the value held by the "Enter Website URL" text_input
    call             \* the last operation: its name, arguments, returned value

vars == <<chatbot, parsed_data, chat_history, api_configured, api_key, url_input, call>>

None == [none |-> TRUE]

Min(S) == CHOOSE m \in S : \A k \in S : m <= k

(***************************************************************************)
(* str                                                                     *)
(***************************************************************************)
Ch(c) == [c |-> c, n |-> 1]

Run(c, k) == IF k <= 0 THEN <<>> ELSE <<[c |-> c, n |-> k]>>

Str(cs) == [i \in 1..Len(cs) |-> Ch(cs[i])]

Whitespace == {" ", "\n", "\t"}

LineBreaks == {"\n"}

isspace(e) == e.c \in Whitespace

RECURSIVE len(_)
len(s) == IF s = <<>> THEN 0 ELSE s[1].n + len(Tail(s))

RECURSIVE lstrip(_)
lstrip(s) == IF s # <<>> /\ isspace(s[1]) THEN lstrip(Tail(s)) ELSE s

RECURSIVE rstrip(_)
rstrip(s) ==
    IF s # <<>> /\ isspace(s[Len(s)]) THEN rstrip(SubSeq(s, 1, Len(s) - 1)) ELSE s

strip(s) == rstrip(lstrip(s))

\* s.splitlines()
RECURSIVE splitlines(_)
splitlines(s) ==
    IF s = <<>> THEN <<>>
    ELSE LET brk == {i \in 1..Len(s) : s[i].c \in LineBreaks}
         IN  IF brk = {} THEN <<s>>
             ELSE <<SubSeq(s, 1, Min(brk) - 1)>>
                      \o splitlines(SubSeq(s, Min(brk) + 1, Len(s)))

\* s.split("  ")
RECURSIVE split(_)
split(s) ==
    LET hit == {i \in 1..(Len(s) - 1) : s[i].c = " " /\ s[i + 1].c = " "}
    IN  IF hit = {} THEN <<s>>
        ELSE <<SubSeq(s, 1, Min(hit) - 1)>> \o split(SubSeq(s, Min(hit) + 2, Len(s)))

\* ' '.join(parts)
RECURSIVE join(_)
join(parts) ==
    IF parts = <<>> THEN <<>>
    ELSE IF Len(parts) = 1 THEN parts[1]
    ELSE parts[1] \o <<Ch(" ")>> \o join(Tail(parts))

\* re.sub(r'\s+', ' ', s)
RECURSIVE re_sub(_)
re_sub(s) ==
    IF s = <<>> THEN <<>>
    ELSE IF isspace(s[1]) THEN <<Ch(" ")>> \o re_sub(lstrip(s))
    ELSE <<s[1]>> \o re_sub(Tail(s))

\* ''.join(parts)
RECURSIVE concat(_)
concat(parts) ==
    IF parts = <<>> THEN <<>>
    ELSE IF Len(parts) = 1 THEN parts[1]
    ELSE LET half == Len(parts) \div 2
         IN  concat(SubSeq(parts, 1, half)) \o concat(SubSeq(parts, half + 1, Len(parts)))

\* s[:k]
RECURSIVE slice(_, _)
slice(s, k) ==
    IF s = <<>> \/ k <= 0 THEN <<>>
    ELSE IF s[1].n <= k THEN <<s[1]>> \o slice(Tail(s), k - s[1].n)
    ELSE <<[c |-> s[1].c, n |-> k]>>

\* len(s.split())
word_count(s) ==
    Cardinality({i \in 1..Len(s) : ~isspace(s[i]) /\ (i = 1 \/ isspace(s[i - 1]))})

\* the i-th character of s, 1 <= i <= len(s)
RECURSIVE char_at(_, _)
char_at(s, i) == IF i <= s[1].n THEN s[1].c ELSE char_at(Tail(s), i - s[1].n)

\* s.endswith(t)
endswith(s, t) ==
    /\ len(s) >= len(t)
    /\ \A i \in 1..len(t) : char_at(s, len(s) - len(t) + i) = char_at(t, i)

\* the characters occurring in s
chars(s) == {s[i].c : i \in 1..Len(s)}

\* mutant of head: the slice keeps one element too many
head_one_more(lst, k) == SubSeq(lst, 1, IF Len(lst) < k + 1 THEN Len(lst) ELSE k + 1)

\* lst[:k]
head(lst, k) == SubSeq(lst, 1, IF Len(lst) < k THEN Len(lst) ELSE k)

(***************************************************************************)
(* BeautifulSoup                                                           *)
(***************************************************************************)
Open(tag) == [k |-> "open", tag |-> tag, name |-> "", s |-> <<>>]

Close(tag) == [k |-> "close", tag |-> tag, name |-> "", s |-> <<>>]

Text(s) == [k |-> "text", tag |-> "", name |-> "", s |-> s]

Meta(name, content) == [k |-> "meta", tag |-> "meta", name |-> name, s |-> content]

Elem(tag, children) == <<Open(tag)>> \o children \o <<Close(tag)>>

\* the index of the token closing the element opened just before index j
RECURSIVE close_of(_, _, _)
close_of(doc, j, depth) ==
    IF j > Len(doc) THEN Len(doc)
    ELSE IF doc[j].k = "open" THEN close_of(doc, j + 1, depth + 1)
    ELSE IF doc[j].k = "close"
         THEN IF depth = 1 THEN j ELSE close_of(doc, j + 1, depth - 1)
    ELSE close_of(doc, j + 1, depth)

\* the element opened at index i, its own tokens included
element(doc, i) ==
    IF doc[i].k = "open" THEN SubSeq(doc, i, close_of(doc, i + 1, 1)) ELSE <<doc[i]>>

\* soup.find_all(tags): the indices of the matching elements, in document order
find_all(doc, tags) ==
    SelectSeq([i \in 1..Len(doc) |-> i],
              LAMBDA i : doc[i].k \in {"open", "meta"} /\ doc[i].tag \in tags)

\* tag.get_text(): every string node below, concatenated
get_text(doc) ==
    LET nodes == SelectSeq(doc, LAMBDA t : t.k = "text")
    IN  concat([i \in 1..Len(nodes) |-> nodes[i].s])

\* mutant of RemovedTags: only what the comment on line 45 names
RemovedTags_script_style == {"script", "style"}

RemovedTags == {"script", "style", "nav", "footer", "header", "aside"}

HeadingTags == {"h1", "h2", "h3", "h4", "h5", "h6"}

\* for script in soup([...]): script.decompose()
RECURSIVE decompose(_, _)
decompose(doc, tags) ==
    LET hits == find_all(doc, tags)
    IN  IF hits = <<>> THEN doc
        ELSE LET i == hits[1]
                 e == i + Len(element(doc, i)) - 1
             IN  SubSeq(doc, 1, i - 1) \o decompose(SubSeq(doc, e + 1, Len(doc)), tags)

(***************************************************************************)
(* GeminiWebsiteChatbot.parse_website                                      *)
(***************************************************************************)
max_content_length == 50000

max_heading_length == 200

min_paragraph_length == 50

max_headings == 20

max_paragraphs == 30

TruncationMarker ==
    Str(<<".", ".", ".", " ", "[", "C", "o", "n", "t", "e", "n", "t", " ",
          "t", "r", "u", "n", "c", "a", "t", "e", "d", "]">>)

\* lines 53-58: the two-stage clean-up of the page text
RECURSIVE chunks_of(_)
chunks_of(lines) ==
    IF lines = <<>> THEN <<>>
    ELSE LET phrases == split(strip(lines[1]))
             kept == SelectSeq([i \in 1..Len(phrases) |-> strip(phrases[i])],
                               LAMBDA chunk : chunk # <<>>)
         IN  kept \o chunks_of(Tail(lines))

clean_text(text) == strip(re_sub(join(chunks_of(splitlines(text)))))

\* mutant of truncate: the limit itself already counts as too long
truncate_at_limit(text) ==
    IF len(text) >= max_content_length
    THEN slice(text, max_content_length) \o TruncationMarker
    ELSE text

\* lines 84-85
truncate(text) ==
    IF len(text) > max_content_length
    THEN slice(text, max_content_length) \o TruncationMarker
    ELSE text

\* lines 69-73
extract_headings(soup) ==
    LET found == find_all(soup, HeadingTags)
        texts == [i \in 1..Len(found) |-> strip(get_text(element(soup, found[i])))]
    IN  SelectSeq(texts, LAMBDA h : h # <<>> /\ len(h) < max_heading_length)

\* lines 76-80
extract_paragraphs(soup) ==
    LET found == find_all(soup, {"p"})
        texts == [i \in 1..Len(found) |-> strip(get_text(element(soup, found[i])))]
    IN  SelectSeq(texts, LAMBDA p : len(p) > min_paragraph_length)

\* lines 61-62
extract_title(soup) ==
    LET found == find_all(soup, {"title"})
    IN  IF found = <<>> THEN Str(<<"N", "o", " ", "T", "i", "t", "l", "e">>)
        ELSE strip(get_text(element(soup, found[1])))

\* lines 65-66
extract_description(soup) ==
    LET found == SelectSeq(find_all(soup, {"meta"}),
                           LAMBDA i : soup[i].name = "description")
    IN  IF found = <<>> THEN <<>> ELSE strip(soup[found[1]].s)

\* What requests.get, raise_for_status and the parsing do for a URL: the
\* exception raised inside the try block (or "none"), its text, the parsed tree.
Response(doc) == [raises |-> "none", msg |-> "", soup |-> doc]

Failure(kind, msg) == [raises |-> kind, msg |-> msg, soup |-> <<>>]

\* mutant of request_failed: one handler for every exception
request_failed_as_parsing(url, msg) ==
    [url |-> url,
     error |-> [text |-> "Parsing failed: ", detail |-> msg],
     status |-> "error"]

\* lines 99-104: except requests.RequestException
request_failed(url, msg) ==
    [url |-> url,
     error |-> [text |-> "Request failed: ", detail |-> msg],
     status |-> "error"]

\* lines 105-110: except Exception
parsing_failed(url, msg) ==
    [url |-> url,
     error |-> [text |-> "Parsing failed: ", detail |-> msg],
     status |-> "error"]

\* lines 43-97: the body of the try block once the page is fetched
extract(url, doc) ==
    LET soup == decompose(doc, RemovedTags)
        text == truncate(clean_text(get_text(soup)))
    IN  [url |-> url,
         title |-> extract_title(soup),
         description |-> extract_description(soup),
         headings |-> head(extract_headings(soup), max_headings),
         paragraphs |-> head(extract_paragraphs(soup), max_paragraphs),
         content |-> text,
         word_count |-> word_count(text),
         char_count |-> len(text),
         status |-> "success"]

parse_website(url, response) ==
    IF response.raises = "RequestException" THEN request_failed(url, response.msg)
    ELSE IF response.raises = "Exception" THEN parsing_failed(url, response.msg)
    ELSE extract(url, response.soup)

(***************************************************************************)
(* GeminiWebsiteChatbot: construction, setup_gemini, process_content       *)
(***************************************************************************)
NoneStr == "None"

GenerativeModel == [model_name |-> "gemini-2.0-flash"]

\* mutant of setup_gemini: True is returned after the except branch too
setup_gemini_returns_true(self, key, ok) ==
    IF ok
    THEN [self |-> [self EXCEPT !.model = GenerativeModel, !.api_key = key],
          ret |-> TRUE]
    ELSE [self |-> self, ret |-> TRUE]

\* setup_gemini(api_key); ok: genai.configure and GenerativeModel did not raise
setup_gemini(self, key, ok) ==
    IF ok
    THEN [self |-> [self EXCEPT !.model = GenerativeModel, !.api_key = key],
          ret |-> TRUE]
    ELSE [self |-> self, ret |-> FALSE]

\* GeminiWebsiteChatbot(api_key); key = NoneStr or "" is the falsy argument
NewChatbot(key, ok) ==
    LET self == [content |-> <<>>, website_data |-> <<>>, api_key |-> key,
                 model |-> None]
    IN  IF key \notin {NoneStr, ""} THEN setup_gemini(self, key, ok).self ELSE self

\* mutant of process_content: the text of the page is not stored
process_content_keeps_content(self, website_data) ==
    [self EXCEPT !.website_data = website_data]

process_content(self, website_data) ==
    [self EXCEPT !.website_data = website_data, !.content = website_data.content]

(***************************************************************************)
(* GeminiWebsiteChatbot.generate_response                                  *)
(***************************************************************************)
\* A message is the pieces of an f-string: the literal text, then the
\* interpolated str (empty for a fixed message).
Message(text) == [text |-> text, detail |-> <<>>]

NOT_CONFIGURED == Message("Gemini API is not configured. Please add your API key.")

NO_CONTENT ==
    Message("No website content available. Please parse a website first!")

INVALID_KEY == Message("Invalid API key. Please check your Gemini API key.")

SAFETY_BLOCKED ==
    Message("Response blocked by safety filters. Try rephrasing your question.")

QUOTA_EXCEEDED ==
    Message("API quota exceeded. Please try again later or check your Gemini API usage.")

GenericError(error_msg) == [text |-> "Error generating response: ", detail |-> error_msg]

prompt_headings == 10

prompt_content_length == 10000

LowerCase ==
    <<"a", "b", "c", "d", "e", "f", "g", "h", "i", "j", "k", "l", "m",
      "n", "o", "p", "q", "r", "s", "t", "u", "v", "w", "x", "y", "z">>

UpperCase ==
    <<"A", "B", "C", "D", "E", "F", "G", "H", "I", "J", "K", "L", "M",
      "N", "O", "P", "Q", "R", "S", "T", "U", "V", "W", "X", "Y", "Z">>

\* s.upper()
upper(s) ==
    [i \in 1..Len(s) |->
        IF \E j \in 1..26 : LowerCase[j] = s[i].c
        THEN [c |-> UpperCase[CHOOSE j \in 1..26 : LowerCase[j] = s[i].c], n |-> s[i].n]
        ELSE s[i]]

\* t in s
contains(s, t) ==
    \E off \in 0..(len(s) - len(t)) :
        \A i \in 1..len(t) : char_at(s, off + i) = char_at(t, i)

API_KEY == Str(<<"A", "P", "I", "_", "K", "E", "Y">>)

SAFETY == Str(<<"S", "A", "F", "E", "T", "Y">>)

QUOTA == Str(<<"Q", "U", "O", "T", "A">>)

\* mutant of classify: the quota test comes first
classify_quota_first(error_msg) ==
    IF contains(upper(error_msg), QUOTA) THEN QUOTA_EXCEEDED
    ELSE IF contains(upper(error_msg), API_KEY) THEN INVALID_KEY
    ELSE IF contains(upper(error_msg), SAFETY) THEN SAFETY_BLOCKED
    ELSE GenericError(error_msg)

\* lines 165-174: the except branch
classify(error_msg) ==
    IF contains(upper(error_msg), API_KEY) THEN INVALID_KEY
    ELSE IF contains(upper(error_msg), SAFETY) THEN SAFETY_BLOCKED
    ELSE IF contains(upper(error_msg), QUOTA) THEN QUOTA_EXCEEDED
    ELSE GenericError(error_msg)

\* d.get(key, default)
dict_get(d, key, default) == IF key \in DOMAIN d THEN d[key] ELSE default

\* lines 127-144: the pieces interpolated into the prompt
build_prompt(self, query) ==
    [title |-> dict_get(self.website_data, "title", Str(<<"N", "/", "A">>)),
     url |-> dict_get(self.website_data, "url", "N/A"),
     description |-> dict_get(self.website_data, "description", Str(<<"N", "/", "A">>)),
     headings |-> head(dict_get(self.website_data, "headings", <<>>), prompt_headings),
     content |-> slice(self.content, prompt_content_length),
     query |-> query]

\* What model.generate_content does with a prompt: return text, or raise.
Answer(text) == [raises |-> FALSE, text |-> text, msg |-> <<>>]

ProviderError(msg) == [raises |-> TRUE, text |-> "", msg |-> msg]

has_content(self) == self.content # <<>>

\* mutant of generate_response: the content is checked before the model
generate_response_content_first(self, query, provider) ==
    IF ~has_content(self)
    THEN [ret |-> NO_CONTENT, requests |-> <<>>]
    ELSE IF self.model = None
    THEN [ret |-> NOT_CONFIGURED, requests |-> <<>>]
    ELSE [ret |-> IF provider.raises THEN classify(provider.msg)
                  ELSE Message(provider.text),
          requests |-> <<build_prompt(self, query)>>]

\* generate_response(query); provider is consulted only if the call is made.
\* ret: the returned message; requests: the prompts submitted to the provider.
generate_response(self, query, provider) ==
    IF self.model = None
    THEN [ret |-> NOT_CONFIGURED, requests |-> <<>>]
    ELSE IF ~has_content(self)
    THEN [ret |-> NO_CONTENT, requests |-> <<>>]
    ELSE [ret |-> IF provider.raises THEN classify(provider.msg)
                  ELSE Message(provider.text),
          requests |-> <<build_prompt(self, query)>>]

(***************************************************************************)
(* Inputs: web pages, fetch failures, provider outcomes                    *)
(***************************************************************************)
MaxDepth == 2       \* nesting depth of the generated element paths

MaxRepeat == 34     \* most repeated elements in a generated page

Slack == 2          \* text lengths range this far around the size limit

MaxFrags == 3       \* most fragments in a generated provider error text

MaxTurns == 2       \* most question/answer pairs kept in a session

RECURSIVE Nest(_, _)
Nest(path, inner) ==
    IF path = <<>> THEN inner ELSE Elem(path[1], Nest(Tail(path), inner))

NestTags == {"script", "style", "nav", "footer", "header", "aside", "p", "h1", "div"}

Paths == UNION {[1..d -> NestTags] : d \in 0..MaxDepth}

VisibleParagraph == Elem("p", <<Text(Run("v", min_paragraph_length + 1))>>)

\* one text node, short or of paragraph length, below a path of elements
NestDocs ==
    {Nest(path, <<Text(Run(c, n))>>) \o after :
        path \in Paths, c \in {"a", "#"}, n \in {1, min_paragraph_length + 1},
        after \in {<<>>, VisibleParagraph}}

\* k elements of one tag, the i-th holding base + i characters
RECURSIVE RepeatDoc(_, _, _)
RepeatDoc(tag, base, k) ==
    IF k = 0 THEN <<>>
    ELSE RepeatDoc(tag, base, k - 1) \o Elem(tag, <<Text(Run("a", base + k))>>)

RepeatDocs ==
    {RepeatDoc("h2", base, k) : base \in {0, max_heading_length - 25}, k \in 0..MaxRepeat}
    \cup
    {RepeatDoc("p", base, k) : base \in {min_paragraph_length - 3, 60}, k \in 0..MaxRepeat}

Lengths ==
    (0..Slack) \cup ((max_content_length - Slack)..(max_content_length + Slack))

Tails ==
    {<<>>, <<Ch(" "), Ch("a")>>, TruncationMarker, <<Ch("\n"), Ch(" ")>> \o TruncationMarker}

\* a page whose text is n characters and then a tail
LongDocs == {Elem("div", <<Text(Run("x", n) \o tail)>>) : n \in Lengths, tail \in Tails}

Titles ==
    {<<>>,
     Elem("title", <<Text(<<Ch(" "), Ch("T"), Ch("\n")>>)>>),
     Elem("header", Elem("title", <<Text(<<Ch("#")>>)>>))}

Metas ==
    {<<>>,
     <<Meta("description", <<Ch(" "), Ch("D"), Ch(" ")>>)>>,
     <<Meta("keywords", <<Ch("K")>>), Meta("description", <<>>)>>,
     Elem("footer", <<Meta("description", <<Ch("#")>>)>>)}

MessyText ==
    <<Ch(" "), Ch("a"), Ch(" "), Ch(" "), Ch(" "), Ch("b"), Ch("\t"), Ch("\n"),
      Ch("\n"), Ch(" "), Ch("c"), Ch(" "), Ch("d"), Ch(" ")>>

HeadDocs == {t \o m \o Elem("div", <<Text(MessyText)>>) : t \in Titles, m \in Metas}

Docs == NestDocs \cup RepeatDocs \cup LongDocs \cup HeadDocs

Urls == {"https://a.example", "https://b.example"}

ExceptionTexts == {"timeout", "404 Client Error"}

Responses ==
    {Response(doc) : doc \in Docs}
    \cup {Failure(kind, msg) : kind \in {"RequestException", "Exception"},
                               msg \in ExceptionTexts}

\* the pages of the session and of the class-level specification
EmptyPage == Elem("script", <<Text(<<Ch("#")>>)>>)

SmallPage ==
    Elem("title", <<Text(<<Ch("T")>>)>>) \o Elem("h1", <<Text(<<Ch("H")>>)>>)
        \o VisibleParagraph

BigPage ==
    RepeatDoc("h2", 0, MaxRepeat) \o RepeatDoc("p", 60, MaxRepeat)
        \o Elem("div", <<Text(Run("x", max_content_length))>>)

SessionResponses ==
    {Response(doc) : doc \in {EmptyPage, SmallPage, BigPage}}
    \cup {Failure("RequestException", "timeout"), Failure("Exception", "boom")}

Fragments ==
    {Str(<<"A", "p", "i", "_", "K", "e", "y">>),
     Str(<<"A", "P", "I", "_">>),
     Str(<<"k", "e", "y">>),
     Str(<<"s", "A", "f", "E", "t", "Y">>),
     Str(<<"Q", "u", "o", "t", "a">>),
     Str(<<"Q", "U", "O", "T">>),
     Str(<<"a">>)}

ErrorTexts == {concat(parts) : parts \in UNION {[1..k -> Fragments] : k \in 0..MaxFrags}}

ProviderOutcomes == {Answer("answer")} \cup {ProviderError(msg) : msg \in ErrorTexts}

SessionOutcomes ==
    {Answer("answer"),
     ProviderError(Str(<<"q", "u", "o", "t", "a">>)),
     ProviderError(Str(<<"b", "o", "o", "m">>))}

Queries == {"What is this website about?"}

Keys == {"", "key-1"}

(***************************************************************************)
(* main(): one action per script run, triggered by one widget              *)
(***************************************************************************)
Init ==
    /\ chatbot = NewChatbot(NoneStr, TRUE)
    /\ parsed_data = None
    /\ chat_history = <<>>
    /\ api_configured = FALSE
    /\ api_key = ""
    /\ url_input = ""
    /\ call = [op |-> "start"]

\* lines 208-213, run at the top of every script run
configure(cb, configured, key, ok) ==
    IF key # "" /\ ~configured
    THEN LET r == setup_gemini(cb, key, ok)
         IN  [chatbot |-> r.self, api_configured |-> IF r.ret THEN TRUE ELSE configured]
    ELSE [chatbot |-> cb, api_configured |-> configured]

\* line 246, 266, 280, 299: parsed_data and parsed_data['status'] == 'success'
page_shown(data) == data # None /\ data.status = "success"

\* the user edits the API key box
EnterApiKey(key, ok) ==
    /\ key # api_key
    /\ LET c == configure(chatbot, api_configured, key, ok)
       IN  /\ chatbot' = c.chatbot
           /\ api_configured' = c.api_configured
    /\ api_key' = key
    /\ call' = [op |-> "api_key", key |-> key]
    /\ UNCHANGED <<parsed_data, chat_history, url_input>>

\* the user edits the URL box
EnterUrl(url, ok) ==
    /\ url # url_input
    /\ LET c == configure(chatbot, api_configured, api_key, ok)
       IN  /\ chatbot' = c.chatbot
           /\ api_configured' = c.api_configured
    /\ url_input' = url
    /\ call' = [op |-> "url_input", url |-> url]
    /\ UNCHANGED <<parsed_data, chat_history, api_key>>

\* mutant of ParseWebsite: the chat is cleared after a failed parse too
ParseWebsite_clears_always(response, ok) ==
    /\ url_input # ""
    /\ \E c \in {configure(chatbot, api_configured, api_key, ok)},
          data \in {parse_website(url_input, response)} :
           /\ api_configured' = c.api_configured
           /\ parsed_data' = data
           /\ chatbot' = IF data.status = "success"
                         THEN process_content(c.chatbot, data) ELSE c.chatbot
           /\ chat_history' = <<>>
           /\ call' = [op |-> "Parse Website", url |-> url_input, ret |-> data,
                       turns_before |-> Len(chat_history)]
    /\ UNCHANGED <<api_key, url_input>>

\* lines 231-243: the Parse Website button
ParseWebsite(response, ok) ==
    /\ url_input # ""
    /\ \E c \in {configure(chatbot, api_configured, api_key, ok)},
          data \in {parse_website(url_input, response)} :
           /\ api_configured' = c.api_configured
           /\ parsed_data' = data
           /\ IF data.status = "success"
              THEN /\ chatbot' = process_content(c.chatbot, data)
                   /\ chat_history' = <<>>
              ELSE /\ chatbot' = c.chatbot
                   /\ chat_history' = chat_history
           /\ call' = [op |-> "Parse Website", url |-> url_input, ret |-> data,
                       turns_before |-> Len(chat_history)]
    /\ UNCHANGED <<api_key, url_input>>

\* lines 279-294: the chat input
ChatInput(query, provider, ok) ==
    /\ Len(chat_history) < 2 * MaxTurns
    /\ LET c == configure(chatbot, api_configured, api_key, ok)
       IN  /\ chatbot' = c.chatbot
           /\ api_configured' = c.api_configured
           /\ IF c.api_configured /\ page_shown(parsed_data)
              THEN LET r == generate_response(c.chatbot, query, provider)
                   IN  /\ chat_history' = Append(Append(chat_history, <<"user", Message(query)>>),
                                                 <<"assistant", r.ret>>)
                       /\ call' = [op |-> "chat_input", query |-> query,
                                   accepted |-> TRUE, ret |-> r.ret,
                                   requests |-> r.requests]
              ELSE /\ chat_history' = chat_history
                   /\ call' = [op |-> "chat_input", query |-> query,
                               accepted |-> FALSE, ret |-> None, requests |-> <<>>]
    /\ UNCHANGED <<parsed_data, api_key, url_input>>

\* lines 325-327: Clear Chat History, then st.rerun()
ClearChatHistory(ok, ok2) ==
    /\ LET c == configure(chatbot, api_configured, api_key, ok)
           c2 == configure(c.chatbot, c.api_configured, api_key, ok2)
       IN  /\ chatbot' = c2.chatbot
           /\ api_configured' = c2.api_configured
    /\ chat_history' = <<>>
    /\ call' = [op |-> "Clear Chat History"]
    /\ UNCHANGED <<parsed_data, api_key, url_input>>

\* lines 330-335: Reset All, then st.rerun(); the text boxes keep their values
ResetAll(ok2) ==
    /\ LET c2 == configure(NewChatbot(NoneStr, TRUE), FALSE, api_key, ok2)
       IN  /\ chatbot' = c2.chatbot
           /\ api_configured' = c2.api_configured
    /\ chat_history' = <<>>
    /\ parsed_data' = None
    /\ call' = [op |-> "Reset All"]
    /\ UNCHANGED <<api_key, url_input>>

\* the outcomes of the set-up attempted by a script run that holds this key
SetupOutcomes(key) == IF key # "" /\ ~api_configured THEN BOOLEAN ELSE {TRUE}

Next ==
    \/ \E key \in Keys : \E ok \in SetupOutcomes(key) : EnterApiKey(key, ok)
    \/ \E url \in Urls \cup {""}, ok \in SetupOutcomes(api_key) : EnterUrl(url, ok)
    \/ \E response \in SessionResponses, ok \in SetupOutcomes(api_key) :
          ParseWebsite(response, ok)
    \/ \E query \in Queries, provider \in SessionOutcomes, ok \in SetupOutcomes(api_key) :
          ChatInput(query, provider, ok)
    \/ \E ok \in SetupOutcomes(api_key), ok2 \in BOOLEAN : ClearChatHistory(ok, ok2)
    \/ \E ok2 \in BOOLEAN : ResetAll(ok2)

Spec == Init /\ [][Next]_vars

(***************************************************************************)
(* The class used directly: its methods called in any order                *)
(***************************************************************************)
session == <<parsed_data, chat_history, api_configured, api_key, url_input>>

\* generate_response changes nothing, so a behaviour ends by observing one call
Observed == call.op = "generate_response"

Construct(key, ok) ==
    /\ ~Observed
    /\ chatbot' = NewChatbot(key, ok)
    /\ call' = [op |-> "__init__"]
    /\ UNCHANGED session

SetupGemini(key, ok) ==
    /\ ~Observed
    /\ chatbot' = setup_gemini(chatbot, key, ok).self
    /\ call' = [op |-> "setup_gemini"]
    /\ UNCHANGED session

\* process_content on the result of a successful parse_website
ProcessContent(url, response) ==
    /\ ~Observed
    /\ parse_website(url, response).status = "success"
    /\ chatbot' = process_content(chatbot, parse_website(url, response))
    /\ call' = [op |-> "process_content"]
    /\ UNCHANGED session

GenerateResponse(query, provider) ==
    /\ ~Observed
    /\ call' = [op |-> "generate_response", self |-> chatbot, query |-> query,
                provider |-> provider,
                ret |-> generate_response(chatbot, query, provider).ret,
                requests |-> generate_response(chatbot, query, provider).requests]
    /\ UNCHANGED chatbot
    /\ UNCHANGED session

NextAPI ==
    \/ \E key \in Keys \cup {NoneStr}, ok \in BOOLEAN : Construct(key, ok)
    \/ \E key \in Keys \ {""}, ok \in BOOLEAN : SetupGemini(key, ok)
    \/ \E response \in SessionResponses : ProcessContent("https://a.example", response)
    \/ \E query \in Queries, provider \in ProviderOutcomes :
          GenerateResponse(query, provider)

SpecAPI == Init /\ [][NextAPI]_vars

(***************************************************************************)
(* parse_website alone, over the generated pages                           *)
(***************************************************************************)
\* a pure function: one call per behaviour
ParseCall(url, response) ==
    /\ call.op = "start"
    /\ call' = [op |-> "parse_website", url |-> url, response |-> response,
                ret |-> parse_website(url, response)]
    /\ UNCHANGED chatbot
    /\ UNCHANGED session

NextParse == \E url \in Urls, response \in Responses : ParseCall(url, response)

SpecParse == Init /\ [][NextParse]_vars

(***************************************************************************)
(* Properties                                                              *)
(***************************************************************************)
Generated == call.op = "generate_response"

Parsed == call.op = "parse_website"

ParsedOk == Parsed /\ call.ret.status = "success"

\* C1: generate_response tests the model first and the stored content second;
\* the first failing test decides the message, no prompt is submitted to the
\* provider, and the chatbot is left as it was.
C1_PreconditionsInOrder ==
    Generated =>
        /\ call.self.model = None =>
              call.ret = NOT_CONFIGURED /\ call.requests = <<>>
        /\ call.self.model # None /\ call.self.content = <<>> =>
              call.ret = NO_CONTENT /\ call.requests = <<>>
        /\ chatbot = call.self

C1_Witness ==
    /\ Generated
    /\ call.self.model = None
    /\ call.self.content = <<>>
    /\ call.ret = NOT_CONFIGURED

\* C2: with a model configured and the result of a successful parse stored
\* (whatever its content, the empty text included), generate_response does
\* not answer "parse a website first": it submits exactly one prompt, built
\* from the stored page and the query.
C2_StoredPageIsSubmitted ==
    /\ (Generated /\ call.self.model # None /\ call.self.website_data # <<>>) =>
          /\ call.ret # NO_CONTENT
          /\ call.requests = <<build_prompt(call.self, call.query)>>
    /\ (call.op = "chat_input" /\ call.accepted) =>
          /\ call.ret # NO_CONTENT
          /\ call.requests = <<build_prompt(chatbot, call.query)>>

\* C3: a successful parse replaces the page in all three places and leaves an
\* empty chat, and no step gives the session another successful page while
\* keeping a turn.
C3_ParseReplacesAndClears ==
    /\ [](call.op = "Parse Website" /\ call.ret.status = "success" =>
            /\ parsed_data = call.ret
            /\ chatbot.website_data = call.ret
            /\ chatbot.content = call.ret.content
            /\ chat_history = <<>>)
    /\ [][(parsed_data' # parsed_data /\ page_shown(parsed_data')) =>
            chat_history' = <<>>]_vars

C3_Witness ==
    /\ call.op = "Parse Website"
    /\ call.ret.status = "success"
    /\ call.turns_before > 0
    /\ call.ret.content # <<>>
    /\ chat_history = <<>>

\* the same letter, whatever the case
SameLetter(a, b) ==
    a = b \/ \E j \in 1..26 : {a, b} = {LowerCase[j], UpperCase[j]}

\* word occurs in msg, letter case ignored
Mentions(msg, word) ==
    \E off \in 0..(len(msg) - len(word)) :
        \A i \in 1..len(word) : SameLetter(char_at(msg, off + i), char_at(word, i))

\* C4: a failed provider call is answered by the message of the first of
\* API_KEY, SAFETY, QUOTA that the error text mentions in any letter case,
\* and by the generic message echoing the text if it mentions none.
C4_ErrorClassification ==
    (Generated /\ call.requests # <<>> /\ call.provider.raises) =>
        call.ret =
            IF Mentions(call.provider.msg, API_KEY) THEN INVALID_KEY
            ELSE IF Mentions(call.provider.msg, SAFETY) THEN SAFETY_BLOCKED
            ELSE IF Mentions(call.provider.msg, QUOTA) THEN QUOTA_EXCEEDED
            ELSE GenericError(call.provider.msg)

C4_Witness ==
    /\ Generated
    /\ call.requests # <<>>
    /\ call.provider.raises
    /\ Mentions(call.provider.msg, QUOTA)
    /\ Mentions(call.provider.msg, SAFETY)
    /\ Mentions(call.provider.msg, API_KEY)
    /\ ~contains(call.provider.msg, API_KEY)
    /\ call.ret = INVALID_KEY

\* the text of the page before lines 84-85 cut it
PreTruncation == clean_text(get_text(decompose(call.response.soup, RemovedTags)))

\* C5 as claimed: the content ends with the truncation marker exactly when
\* the text before truncation was longer than 50,000 characters.
C5_MarkerIffTruncated ==
    ParsedOk =>
        (endswith(call.ret.content, TruncationMarker)
            <=> len(PreTruncation) > max_content_length)

\* C5 as amended: a text longer than 50,000 characters is stored as its first
\* 50,000 characters followed by the marker, any other text is stored as it
\* is; so the content ends with the marker exactly when the text was longer
\* than 50,000 characters or ended with the marker itself.
C5_MarkerAppendedIffTruncated ==
    ParsedOk =>
        /\ len(PreTruncation) > max_content_length =>
              /\ call.ret.content = slice(PreTruncation, max_content_length) \o TruncationMarker
              /\ len(call.ret.content) = max_content_length + len(TruncationMarker)
        /\ len(PreTruncation) <= max_content_length =>
              call.ret.content = PreTruncation
        /\ endswith(call.ret.content, TruncationMarker)
              <=> (\/ len(PreTruncation) > max_content_length
                   \/ endswith(PreTruncation, TruncationMarker))

C5_Witness ==
    /\ ParsedOk
    /\ len(PreTruncation) = max_content_length + 1
    /\ endswith(call.ret.content, TruncationMarker)
    /\ ~endswith(PreTruncation, TruncationMarker)

WithinBounds(data) ==
    /\ Len(data.headings) <= 20
    /\ Len(data.paragraphs) <= 30
    /\ len(data.content) <= 50000 + len(TruncationMarker)

\* C6: the result of every successful parse, the page the session shows and
\* the page the chatbot holds have at most 20 headings, at most 30
\* paragraphs and at most 50,000 characters plus the marker.
C6_SizeBounds ==
    /\ (call.op = "Parse Website" /\ call.ret.status = "success") => WithinBounds(call.ret)
    /\ page_shown(parsed_data) => WithinBounds(parsed_data)
    /\ chatbot.website_data # <<>> => WithinBounds(chatbot.website_data)

C6_Witness ==
    /\ page_shown(parsed_data)
    /\ Len(parsed_data.headings) = 20
    /\ Len(parsed_data.paragraphs) = 30
    /\ len(parsed_data.content) = 50000 + len(TruncationMarker)
    /\ chatbot.website_data = parsed_data

ClaimedRemoved == {"script", "style", "nav", "footer", "header", "aside"}

\* token i lies below an element the claim names
InsideRemoved(doc, i) ==
    \E j \in 1..(i - 1) :
        /\ doc[j].k = "open"
        /\ doc[j].tag \in ClaimedRemoved
        /\ close_of(doc, j + 1, 1) > i

\* the character # occurs in the page only below such elements
CanaryOnlyInRemoved(doc) ==
    \A i \in 1..Len(doc) : "#" \in chars(doc[i].s) => InsideRemoved(doc, i)

\* C7: no character of a text below a script, style, nav, footer, header or
\* aside element, at any depth, reaches the content, the title, a heading or
\* a paragraph.
C7_RemovedTextNeverExtracted ==
    (ParsedOk /\ CanaryOnlyInRemoved(call.response.soup)) =>
        /\ "#" \notin chars(call.ret.content)
        /\ "#" \notin chars(call.ret.title)
        /\ \A i \in 1..Len(call.ret.headings) : "#" \notin chars(call.ret.headings[i])
        /\ \A i \in 1..Len(call.ret.paragraphs) : "#" \notin chars(call.ret.paragraphs[i])

C7_Witness ==
    /\ ParsedOk
    /\ call.response.soup =
          Nest(<<"aside", "p">>, <<Text(Run("#", min_paragraph_length + 1))>>)
              \o VisibleParagraph
    /\ call.ret.paragraphs = <<Run("v", min_paragraph_length + 1)>>
    /\ call.ret.content = Run("v", min_paragraph_length + 1)

\* C8: parse_website returns for every outcome of the fetch: a request
\* failure gives status error with the text "Request failed: ", any other
\* exception gives status error with "Parsing failed: ", and an error result
\* has the keys url, error and status only.
C8_FailuresAreReturned ==
    Parsed =>
        /\ call.ret.status \in {"success", "error"}
        /\ call.response.raises = "none" <=> call.ret.status = "success"
        /\ call.response.raises = "RequestException" =>
              /\ DOMAIN call.ret = {"url", "error", "status"}
              /\ call.ret.error = [text |-> "Request failed: ", detail |-> call.response.msg]
        /\ call.response.raises = "Exception" =>
              /\ DOMAIN call.ret = {"url", "error", "status"}
              /\ call.ret.error = [text |-> "Parsing failed: ", detail |-> call.response.msg]
        /\ call.ret.url = call.url

C8_Witness ==
    /\ Parsed
    /\ call.response.raises = "RequestException"
    /\ call.ret.status = "error"
    /\ call.ret.error.text = "Request failed: "

ClearingStep ==
    \/ call'.op \in {"Clear Chat History", "Reset All"}
    \/ call'.op = "Parse Website" /\ call'.ret.status = "success"

AnsweringStep ==
    /\ call'.op = "chat_input"
    /\ call'.accepted
    /\ chat_history' = chat_history \o
          <<<<"user", Message(call'.query)>>, <<"assistant", call'.ret>>>>

\* C9: a step leaves the turns as they are, or empties them in a reset or a
\* successful parse, or appends the user turn and the assistant turn of an
\* accepted query; a failed parse, an edit of a text box and a rejected
\* query leave them as they are.
C9_TurnsAppendOnly ==
    [][/\ \/ chat_history' = chat_history
          \/ chat_history' = <<>> /\ ClearingStep
          \/ AnsweringStep
       /\ ~ClearingStep /\ ~(call'.op = "chat_input" /\ call'.accepted) =>
             chat_history' = chat_history]_vars

C9_Witness ==
    /\ call.op = "Parse Website"
    /\ call.ret.status = "error"
    /\ call.turns_before = 2 * MaxTurns
    /\ Len(chat_history) = 2 * MaxTurns

\* C10: whenever the chat accepts a query (the key is configured and the
\* page shown is a success) the chatbot has its model and holds exactly the
\* page shown, and the prompt of an answered query is built from that page.
C10_QueryGroundedOnShownPage ==
    /\ (api_configured /\ page_shown(parsed_data)) =>
          /\ chatbot.model # None
          /\ chatbot.website_data = parsed_data
          /\ chatbot.content = parsed_data.content
    /\ (call.op = "chat_input" /\ call.requests # <<>>) =>
          /\ page_shown(parsed_data)
          /\ call.requests[1].url = parsed_data.url
          /\ call.requests[1].title = parsed_data.title
          /\ call.requests[1].content = slice(parsed_data.content, prompt_content_length)

C10_Witness ==
    /\ api_configured
    /\ parsed_data # None
    /\ parsed_data.status = "error"
    /\ chatbot.content # <<>>
    /\ call.op = "chat_input"
    /\ ~call.accepted

====
